---- MODULE Spec2Model ----
(***************************************************************************)
(* A model of the document retriever of ai-blockchain-assistant:           *)
(*   - shared::rag::RAGSystem      (store, inverted index, tokenizer,      *)
(*                                  search, add_document, lookup by id)    *)
(*   - mcp_server::RAGService      (the tokio RwLock around a RAGSystem)   *)
(*   - mcp_server::tools / server  (get_docs / search_docs tools and the   *)
(*                                  one-line request/response connection)  *)
(*                                                                         *)
(* Text is a sequence of characters; a character is a one-name atom.       *)
(* Three specifications share the definitions:                             *)
(*   SpecTok  the tokenizer applied to every text up to MaxLen and again   *)
(*            to its own output,                                           *)
(*   SpecRag  one caller driving a RAGSystem (load, then add/search/get),  *)
(*   Spec     concurrent callers and connections on one RAGService.        *)
(***************************************************************************)
EXTENDS Integers, Sequences, FiniteSets, TLC

VARIABLES
    documents,   \* RAGSystem.documents : Vec<Document>
    index,       \* RAGSystem.index     : HashMap<String, Vec<usize>>; positions are 0-based
    readers,     \* tasks holding a read guard of RAGService.rag_system
    writers,     \* tasks holding the write guard of RAGService.rag_system
    pc,          \* where each task is in its call
    req,         \* the call each task is making
    out,         \* what each task's call has returned so far
    call,        \* SpecRag: the last RAGSystem call and its return value
    text,        \* SpecTok: the input of tokenize
    toks         \* SpecTok: the value tokenize returned, None before the call

vars == <<documents, index, readers, writers, pc, req, out, call, text, toks>>

\* Option and Result values.
NoneV     == [tag |-> "None"]
Some(x)   == [tag |-> "Some", val |-> x]
Ok(x)     == [tag |-> "Ok", val |-> x]
Err(msg)  == [tag |-> "Err", msg |-> msg]
Unit      == [tag |-> "()"]

----------------------------------------------------------------------------
(* Characters.                                                             *)

UpperCase == <<"A","B","C","D","E","F","G","H","I","J","K","L","M",
               "N","O","P","Q","R","S","T","U","V","W","X","Y","Z">>
LowerCase == <<"a","b","c","d","e","f","g","h","i","j","k","l","m",
               "n","o","p","q","r","s","t","u","v","w","x","y","z">>
Digits    == {"0","1","2","3","4","5","6","7","8","9"}

Range(s) == {s[i] : i \in DOMAIN s}

\* U+0130 (capital I with dot above): alphabetic, and the one character whose
\* lowercase is two characters, "i" followed by U+0307 (combining dot above),
\* which is a mark and not alphanumeric.
IDot    == "I_dot_above"
CombDot == "combining_dot"

\* char::is_alphanumeric. Everything else ("-", " ", "!", "/", ".", CombDot)
\* is a separator for split.
Alphanumerics == Range(UpperCase) \cup Range(LowerCase) \cup Digits \cup {IDot}
IsAlphanumeric(c) == c \in Alphanumerics

\* char::to_lowercase, as str::to_lowercase applies it to each character.
LowerChar(c) ==
    IF c = IDot THEN <<"i", CombDot>>
    ELSE IF \E i \in DOMAIN UpperCase : UpperCase[i] = c
         THEN <<LowerCase[CHOOSE i \in DOMAIN UpperCase : UpperCase[i] = c]>>
         ELSE <<c>>

RECURSIVE ToLowercase(_)
ToLowercase(s) ==
    IF s = <<>> THEN <<>> ELSE LowerChar(Head(s)) \o ToLowercase(Tail(s))

\* str::split(pred): the segments between separators, empty ones included;
\* cur is the segment being read.
RECURSIVE SplitFrom(_, _)
SplitFrom(s, cur) ==
    IF s = <<>> THEN <<cur>>
    ELSE IF ~IsAlphanumeric(Head(s))
         THEN <<cur>> \o SplitFrom(Tail(s), <<>>)
         ELSE SplitFrom(Tail(s), Append(cur, Head(s)))

Split(s) == SplitFrom(s, <<>>)

NonEmpty(seg) == seg # <<>>

\* A tokenizer that keeps the empty segments (the filter forgotten).
TokenizeNoFilter(t) == Split(ToLowercase(t))

\* A tokenizer that does not lowercase.
TokenizeNoLower(t) == SelectSeq(Split(t), NonEmpty)

\* A tokenizer that splits before it lowercases, so that what lowercasing
\* produces is never split again.
TokenizeSplitFirst(t) ==
    LET segs == SelectSeq(Split(t), NonEmpty)
    IN  [i \in 1..Len(segs) |-> ToLowercase(segs[i])]

\* RAGSystem::tokenize
Tokenize(t) == SelectSeq(Split(ToLowercase(t)), NonEmpty)

----------------------------------------------------------------------------
(* RAGSystem: the store and the index.                                     *)

Min(a, b) == IF a < b THEN a ELSE b

\* format!("{}/{}", source, title)
FormatId(source, title) == source \o <<"/">> \o title

\* A Document whose id is its title alone.
MakeDocumentTitleId(title, content, source) ==
    [id |-> title, title |-> title, content |-> content,
     source |-> source, embedding |-> NoneV]

\* The Document built by load_document_directory and by add_document.
MakeDocument(title, content, source) ==
    [id |-> FormatId(source, title), title |-> title, content |-> content,
     source |-> source, embedding |-> NoneV]

\* documents[p] for a 0-based position p.
DocAt(docs, p) == docs[p + 1]

EmptyIndex == [w \in {} |-> <<>>]

\* A push that is skipped when the posting list already ends with doc_idx.
IndexPushOnce(idx, word, doc_idx) ==
    IF word \in DOMAIN idx
    THEN IF idx[word][Len(idx[word])] = doc_idx THEN idx
         ELSE [idx EXCEPT ![word] = Append(@, doc_idx)]
    ELSE [w \in DOMAIN idx \cup {word} |-> IF w = word THEN <<doc_idx>> ELSE idx[w]]

\* A push that a new key misses: or_insert_with(Vec::new) alone.
IndexPushNewEmpty(idx, word, doc_idx) ==
    IF word \in DOMAIN idx
    THEN [idx EXCEPT ![word] = Append(@, doc_idx)]
    ELSE [w \in DOMAIN idx \cup {word} |-> IF w = word THEN <<>> ELSE idx[w]]

\* index.entry(word).or_insert_with(Vec::new).push(doc_idx)
IndexPush(idx, word, doc_idx) ==
    IF word \in DOMAIN idx
    THEN [idx EXCEPT ![word] = Append(@, doc_idx)]
    ELSE [w \in DOMAIN idx \cup {word} |-> IF w = word THEN <<doc_idx>> ELSE idx[w]]

\* for word in words { ... push(doc_idx) }
RECURSIVE IndexWords(_, _, _)
IndexWords(idx, words, doc_idx) ==
    IF words = <<>> THEN idx
    ELSE IndexWords(IndexPush(idx, Head(words), doc_idx), Tail(words), doc_idx)

\* build_index: documents.iter().enumerate(), from position `from` on.
RECURSIVE BuildFrom(_, _, _)
BuildFrom(docs, idx, from) ==
    IF from >= Len(docs) THEN idx
    ELSE BuildFrom(docs, IndexWords(idx, Tokenize(DocAt(docs, from).content), from), from + 1)

\* A build_index that counts the documents from 1.
BuildIndexOneBased(docs) ==
    LET idx == BuildFrom(docs, EmptyIndex, 0)
    IN  [w \in DOMAIN idx |-> [i \in 1..Len(idx[w]) |-> idx[w][i] + 1]]

BuildIndex(docs) == BuildFrom(docs, EmptyIndex, 0)

\* A push that is skipped when a document with the same id is stored.
PushDocumentUnique(docs, title, content, source) ==
    IF \E i \in 1..Len(docs) : docs[i].id = FormatId(source, title) THEN docs
    ELSE Append(docs, MakeDocument(title, content, source))

\* add_document, first half: self.documents.push(document)
PushDocument(docs, title, content, source) ==
    Append(docs, MakeDocument(title, content, source))

\* A doc_idx that is one past the pushed document (the "- 1" forgotten).
DocIdxOffByOne(docs) == Len(docs)

\* add_document: let doc_idx = self.documents.len() - 1, after the push.
DocIdx(docs) == Len(docs) - 1

\* The words without their repetitions, first occurrences kept.
RECURSIVE Distinct(_)
Distinct(words) ==
    IF words = <<>> THEN <<>>
    ELSE LET init == Distinct(SubSeq(words, 1, Len(words) - 1))
             last == words[Len(words)]
         IN  IF last \in Range(init) THEN init ELSE Append(init, last)

\* An add_document that indexes each distinct word of the content once.
IndexDocumentDistinct(docs, idx, content) ==
    IndexWords(idx, Distinct(Tokenize(content)), DocIdx(docs))

\* add_document, second half: tokenize the content and index every word.
IndexDocument(docs, idx, content) ==
    IndexWords(idx, Tokenize(content), DocIdx(docs))

\* A lookup that returns the last match (rfind for find).
GetDocumentByIdLast(docs, id) ==
    IF \E i \in 1..Len(docs) : docs[i].id = id
    THEN Some(docs[CHOOSE i \in 1..Len(docs) :
                     /\ docs[i].id = id
                     /\ \A j \in (i + 1)..Len(docs) : docs[j].id # id])
    ELSE NoneV

\* get_document_by_id: documents.iter().find(|doc| doc.id == id)
GetDocumentById(docs, id) ==
    IF \E i \in 1..Len(docs) : docs[i].id = id
    THEN Some(docs[CHOOSE i \in 1..Len(docs) :
                     /\ docs[i].id = id
                     /\ \A j \in 1..(i - 1) : docs[j].id # id])
    ELSE NoneV

----------------------------------------------------------------------------
(* RAGSystem::search.                                                      *)
(* A score is a sum of logarithms ln(n/m) of ratios of positive integers.  *)
(* It is kept exactly, as the reduced fraction num/den whose logarithm it  *)
(* is: adding scores multiplies fractions, comparing scores compares       *)
(* fractions, and the score 0.0 is 1/1. Scores that are equal as reals are *)
(* ordered either way, which covers what f32 rounding can do to a tie.     *)

RECURSIVE Gcd(_, _)
Gcd(a, b) == IF b = 0 THEN a ELSE Gcd(b, a % b)

Reduce(num, den) ==
    LET g == Gcd(num, den)
    IN  IF g = 0 THEN [num |-> num, den |-> den]
        ELSE [num |-> num \div g, den |-> den \div g]

\* 0.0
ScoreZero == Reduce(1, 1)

\* a + b
ScoreAdd(a, b) == Reduce(a.num * b.num, a.den * b.den)

\* k times a: a added to 0.0 k times
RECURSIVE ScoreTimes(_, _)
ScoreTimes(a, k) == IF k = 0 THEN ScoreZero ELSE ScoreAdd(ScoreTimes(a, k - 1), a)

\* a > b, a = b (partial_cmp; no score is NaN while every den is positive)
ScoreGt(a, b) == a.num * b.den > b.num * a.den
ScoreEq(a, b) == a.num * b.den = b.num * a.den

\* The values of f32 that are no number of the line: a/0 is +infinity, 0/b
\* is ln(0) = -infinity, and 0/0 (also the sum of the two infinities) is NaN,
\* the one value partial_cmp has no answer for.
IsNaN(a) == a.num = 0 /\ a.den = 0

\* (self.documents.len() as f32 / doc_indices.len() as f32).ln()
Idf(docs, doc_indices) == Reduce(Len(docs), Len(doc_indices))

\* An entry that is set to idf and not added to ("=" for "+=").
ScoreEntrySet(scores, doc_idx, idf) ==
    [p \in DOMAIN scores \cup {doc_idx} |-> IF p = doc_idx THEN idf ELSE scores[p]]

\* scores.entry(doc_idx).or_insert(0.0); *entry += idf
ScoreEntryAdd(scores, doc_idx, idf) ==
    IF doc_idx \in DOMAIN scores
    THEN [scores EXCEPT ![doc_idx] = ScoreAdd(@, idf)]
    ELSE [p \in DOMAIN scores \cup {doc_idx} |->
             IF p = doc_idx THEN ScoreAdd(ScoreZero, idf) ELSE scores[p]]

\* for &doc_idx in doc_indices { ... }
RECURSIVE AccumulatePosting(_, _, _)
AccumulatePosting(scores, doc_indices, idf) ==
    IF doc_indices = <<>> THEN scores
    ELSE AccumulatePosting(ScoreEntryAdd(scores, Head(doc_indices), idf),
                           Tail(doc_indices), idf)

\* for token in query_tokens { if let Some(doc_indices) = index.get(&token) ... }
RECURSIVE ScoreTokens(_, _, _, _)
ScoreTokens(scores, tokens, docs, idx) ==
    IF tokens = <<>> THEN scores
    ELSE LET token == Head(tokens)
             next  == IF token \in DOMAIN idx
                      THEN AccumulatePosting(scores, idx[token], Idf(docs, idx[token]))
                      ELSE scores
         IN  ScoreTokens(next, Tail(tokens), docs, idx)

\* A scores map that starts with an entry 0.0 for every document.
ScoresAllDocuments(docs, idx, query) ==
    ScoreTokens([p \in 0..(Len(docs) - 1) |-> ScoreZero], Tokenize(query), docs, idx)

\* A scores map built from the distinct tokens of the query.
ScoresDistinctTokens(docs, idx, query) ==
    ScoreTokens([p \in {} |-> ScoreZero], Distinct(Tokenize(query)), docs, idx)

\* The scores map of search after its first loop.
Scores(docs, idx, query) ==
    ScoreTokens([p \in {} |-> ScoreZero], Tokenize(query), docs, idx)

Perms(S) ==
    {s \in [1..Cardinality(S) -> S] : \A i, j \in 1..Cardinality(S) : i # j => s[i] # s[j]}

\* An order left as the map iterated (the sort forgotten).
UnsortedOrders(scores) == Perms(DOMAIN scores)

\* The orders scores.into_iter().collect() followed by the stable
\* sort_by(b.score.partial_cmp(a.score)) can leave: the map iterates in an
\* unspecified order, so every non-increasing arrangement is possible.
SortedOrders(scores) ==
    {s \in Perms(DOMAIN scores) :
        \A i, j \in 1..Len(s) : i < j => ~ScoreGt(scores[s[j]], scores[s[i]])}

\* A truncate that keeps one element too many.
TruncateOffByOne(s, limit) == SubSeq(s, 1, Min(limit + 1, Len(s)))

\* results.truncate(limit)
Truncate(s, limit) == SubSeq(s, 1, Min(limit, Len(s)))

\* SearchResult { document: self.documents[doc_idx].clone(), score }; pos is
\* the position the document was read from, kept beside it to state properties.
SearchResultOf(docs, scores, doc_idx) ==
    [document |-> DocAt(docs, doc_idx), score |-> scores[doc_idx], pos |-> doc_idx]

\* A search that collects only the entries whose score is not 0.0.
SearchNonzero(docs, idx, query, limit) ==
    LET all    == Scores(docs, idx, query)
        scores == [p \in {p \in DOMAIN all : ~ScoreEq(all[p], ScoreZero)} |-> all[p]]
    IN  {Truncate([i \in 1..Len(order) |-> SearchResultOf(docs, scores, order[i])], limit) :
            order \in SortedOrders(scores)}

\* Every value search(query, limit) can return.
Search(docs, idx, query, limit) ==
    LET scores == Scores(docs, idx, query)
    IN  {Truncate([i \in 1..Len(order) |-> SearchResultOf(docs, scores, order[i])], limit) :
            order \in SortedOrders(scores)}

----------------------------------------------------------------------------
(* RAGSystem::new: the directory scan.                                     *)
(* A file system says whether data/docs and data/embeddings exist or can   *)
(* be created and gives, for each of the three source partitions, a        *)
(* directory that is missing, cannot be listed, or holds entries; an entry *)
(* is a regular file (readable as text or not) or something else.          *)

SrcV2        == <<"u","n","i","s","w","a","p","-","v","2">>
SrcV3        == <<"u","n","i","s","w","a","p","-","v","3">>
SrcContracts == <<"c","o","n","t","r","a","c","t","s">>

\* load_documents: the partitions in the order they are loaded.
Partitions == <<SrcV2, SrcV3, SrcContracts>>

MissingDir    == [exists |-> FALSE, listable |-> FALSE, entries |-> {}]
UnlistableDir == [exists |-> TRUE, listable |-> FALSE, entries |-> {}]
Dir(entries)  == [exists |-> TRUE, listable |-> TRUE, entries |-> entries]
FileSystem(can_create, partitions) ==
    [can_create |-> can_create, partitions |-> partitions]
File(name, content) == [name |-> name, is_file |-> TRUE, content |-> Some(content)]
UnreadableFile(name) == [name |-> name, is_file |-> TRUE, content |-> NoneV]
SubDir(name) == [name |-> name, is_file |-> FALSE, content |-> NoneV]

\* The loop of load_document_directory over the entries in the order read_dir
\* gave them: a regular file becomes a document, an unreadable one is an error.
\* A loop that leaves out the files it cannot read.
RECURSIVE LoadEntriesSkipUnreadable(_, _, _)
LoadEntriesSkipUnreadable(docs, entries, source) ==
    IF entries = <<>> THEN Ok(docs)
    ELSE LET e == Head(entries)
         IN  IF ~e.is_file \/ e.content = NoneV
             THEN LoadEntriesSkipUnreadable(docs, Tail(entries), source)
             ELSE LoadEntriesSkipUnreadable(
                      Append(docs, MakeDocument(e.name, e.content.val, source)),
                      Tail(entries), source)

RECURSIVE LoadEntries(_, _, _)
LoadEntries(docs, entries, source) ==
    IF entries = <<>> THEN Ok(docs)
    ELSE LET e == Head(entries)
         IN  IF ~e.is_file THEN LoadEntries(docs, Tail(entries), source)
             ELSE IF e.content = NoneV THEN Err("io")
             ELSE LoadEntries(Append(docs, MakeDocument(e.name, e.content.val, source)),
                              Tail(entries), source)

\* A load_document_directory for which a missing directory is an error.
LoadDocumentDirectoryStrict(docs, dir, source) ==
    IF ~dir.exists \/ ~dir.listable THEN {Err("io")}
    ELSE {LoadEntries(docs, order, source) : order \in Perms(dir.entries)}

\* load_document_directory: every outcome, read_dir's order being
\* unspecified; fs::read_dir(dir)? fails on what cannot be listed.
LoadDocumentDirectory(docs, dir, source) ==
    IF ~dir.exists THEN {Ok(docs)}
    ELSE IF ~dir.listable THEN {Err("io")}
    ELSE {LoadEntries(docs, order, source) : order \in Perms(dir.entries)}

\* load_documents from partition i on: `?` stops at the first error.
RECURSIVE LoadFrom(_, _, _)
LoadFrom(dirs, i, docs) ==
    IF i > Len(Partitions) THEN {Ok(docs)}
    ELSE UNION {IF r.tag = "Err" THEN {r} ELSE LoadFrom(dirs, i + 1, r.val) :
                   r \in LoadDocumentDirectory(docs, dirs[i], Partitions[i])}

LoadDocuments(fs) == LoadFrom(fs.partitions, 1, <<>>)

\* fs::create_dir_all of data/docs and data/embeddings
CreateDirs(fs) == IF fs.can_create THEN Ok(Unit) ELSE Err("io")

\* RAGSystem::new: create_dir_all(..)?, load_documents()?, build_index()?,
\* Ok(rag)
New(fs) ==
    IF CreateDirs(fs).tag = "Err" THEN {CreateDirs(fs)}
    ELSE {IF r.tag = "Err" THEN r
          ELSE Ok([documents |-> r.val, index |-> BuildIndex(r.val)]) :
             r \in LoadDocuments(fs)}

----------------------------------------------------------------------------
(* The texts and file systems the model draws from.                        *)

MaxDocs  == 3     \* documents in the store
MaxLimit == 2     \* the largest limit a search is given

ContentA == <<"a", " ", "a", " ", "b">>     \* a token twice, another once
ContentB == <<"B">>                         \* indexed as "b"
ContentC == <<"a">>                         \* without the token of ContentB

FileF == <<"f">>
FileG == <<"g">>

InitFileSystems ==
    { FileSystem(TRUE, dirs) : dirs \in
        { <<MissingDir, MissingDir, MissingDir>>,
          <<Dir({File(FileF, ContentA)}), MissingDir, MissingDir>>,
          <<Dir({File(FileF, ContentA), File(FileG, ContentB), SubDir(<<"d">>)}),
            MissingDir, Dir({})>>,
          <<MissingDir, Dir({File(FileF, ContentB)}), Dir({File(FileG, ContentA)})>> } }

\* The arguments of add_document: a second uniswap-v2/f with another content
\* than the loaded one, and two ways to compose the id uniswap-v2/x/f.
AddInput(title, content, source) == [title |-> title, content |-> content, source |-> source]
AddInputs ==
    { AddInput(FileF, ContentA, SrcV2),
      AddInput(FileF, ContentC, SrcV2),
      AddInput(<<"x", "/", "f">>, ContentA, SrcV2),
      AddInput(FileF, ContentB, SrcV2 \o <<"/", "x">>) }

Queries == { <<"a">>, <<"A", "-", "b">>, <<"b", " ", "B">>, <<"z">>, <<" ", "-">> }
Limits  == 0..MaxLimit
QuerySources == {NoneV, Some(SrcV3)}

AbsentId == <<"n", "o", "n", "e">>
GetIds == {FormatId(a.source, a.title) : a \in AddInputs}
            \cup {FormatId(SrcV3, FileF), AbsentId}

----------------------------------------------------------------------------
(* RAGService: what its three methods compute under the lock.              *)

\* score: 1.0, the literal of get_document
ScoreOne == [literal |-> "1.0"]

\* DocumentResult { id, title, content, source, score } of a search result
\* (pos carried along from SearchResultOf).
ToDocumentResult(result) ==
    [id |-> result.document.id, title |-> result.document.title,
     content |-> result.document.content, source |-> result.document.source,
     score |-> result.score, pos |-> result.pos]

\* DocumentQuery { query, limit, source }
DocumentQuery(query, limit, source) == [query |-> query, limit |-> limit, source |-> source]

\* A panic, which unwinds through search_documents and ends the task.
Panic == [tag |-> "Panic"]

\* The two places where search can panic: self.documents[doc_idx] with a
\* position outside the store, and partial_cmp(..).unwrap() in the
\* comparator, which sort_by calls on every element once there are two.
SearchPanics(docs, idx, query) ==
    LET scores == Scores(docs, idx, query)
    IN  \/ \E p \in DOMAIN scores : p \notin 0..(Len(docs) - 1)
        \/ /\ Cardinality(DOMAIN scores) >= 2
           /\ \E p \in DOMAIN scores : IsNaN(scores[p])

\* A search_documents that keeps only the results of the requested source.
SearchDocumentsOfSource(docs, idx, query) ==
    LET Wanted(d) == query.source.tag = "Some" => d.document.source = query.source.val
    IN  {Ok([i \in 1..Len(SelectSeq(r, Wanted)) |->
                ToDocumentResult(SelectSeq(r, Wanted)[i])]) :
            r \in Search(docs, idx, query.query, query.limit)}

\* search_documents: rag_system.search(&query.query, query.limit), mapped;
\* search has no error return.
SearchDocuments(docs, idx, query) ==
    IF SearchPanics(docs, idx, query.query) THEN {Panic}
    ELSE {Ok([i \in 1..Len(r) |-> ToDocumentResult(r[i])]) :
             r \in Search(docs, idx, query.query, query.limit)}

\* A get_document that reports the document it found with the score 0.0.
GetDocumentZeroScore(docs, id) ==
    LET found == GetDocumentById(docs, id)
    IN  IF found.tag = "Some"
        THEN Ok(Some([id |-> found.val.id, title |-> found.val.title,
                      content |-> found.val.content, source |-> found.val.source,
                      score |-> ScoreZero]))
        ELSE Ok(NoneV)

\* get_document
GetDocument(docs, id) ==
    LET found == GetDocumentById(docs, id)
    IN  IF found.tag = "Some"
        THEN Ok(Some([id |-> found.val.id, title |-> found.val.title,
                      content |-> found.val.content, source |-> found.val.source,
                      score |-> ScoreOne]))
        ELSE Ok(NoneV)

----------------------------------------------------------------------------
(* SpecRag: one caller of a RAGService. With a single caller every lock    *)
(* acquisition succeeds at once, so each call is one step; `call` holds    *)
(* the call and its return value until the caller goes on.                 *)

Tasks == {"t1", "t2"}

IdleReq == [method |-> "none"]
NoOut   == [stage |-> "none"]

TasksIdle ==
    /\ readers = {}
    /\ writers = {}
    /\ pc = [t \in Tasks |-> "idle"]
    /\ req = [t \in Tasks |-> IdleReq]
    /\ out = [t \in Tasks |-> NoOut]

TokIdle == text = <<>> /\ toks = NoneV

\* RAGService::new succeeded on one of the file systems.
Loaded ==
    \E fs \in InitFileSystems : \E r \in New(fs) :
        /\ r.tag = "Ok"
        /\ Len(r.val.documents) <= MaxDocs
        /\ documents = r.val.documents
        /\ index = r.val.index

InitRag ==
    /\ Loaded
    /\ call = [op |-> "new"]
    /\ TasksIdle
    /\ TokIdle

Ready == call.op \in {"new", "ready"}

\* add_document(title, content, source) on the service.
CallAddDocument(title, content, source) ==
    /\ Ready
    /\ Len(documents) < MaxDocs
    /\ documents' = PushDocument(documents, title, content, source)
    /\ index' = IndexDocument(documents', index, content)
    /\ call' = [op |-> "add_document", title |-> title, content |-> content,
                source |-> source, ret |-> Ok(Unit)]
    /\ UNCHANGED <<readers, writers, pc, req, out, text, toks>>

\* search_documents(query) on the service.
CallSearchDocuments(query) ==
    /\ Ready
    /\ \E r \in SearchDocuments(documents, index, query) :
          call' = [op |-> "search_documents", query |-> query, ret |-> r]
    /\ UNCHANGED <<documents, index, readers, writers, pc, req, out, text, toks>>

\* A get_document that moves the document it found to the end of the store.
CallGetDocumentMoving(id) ==
    /\ Ready
    /\ call' = [op |-> "get_document", id |-> id, ret |-> GetDocument(documents, id)]
    /\ documents' = IF \E i \in 1..Len(documents) : documents[i].id = id
                    THEN LET i == CHOOSE i \in 1..Len(documents) : documents[i].id = id
                         IN  SubSeq(documents, 1, i - 1)
                                 \o SubSeq(documents, i + 1, Len(documents))
                                 \o <<documents[i]>>
                    ELSE documents
    /\ UNCHANGED <<index, readers, writers, pc, req, out, text, toks>>

\* get_document(id) on the service.
CallGetDocument(id) ==
    /\ Ready
    /\ call' = [op |-> "get_document", id |-> id, ret |-> GetDocument(documents, id)]
    /\ UNCHANGED <<documents, index, readers, writers, pc, req, out, text, toks>>

\* The caller has its value and goes on to its next call.
Continue ==
    /\ ~Ready
    /\ call' = [op |-> "ready"]
    /\ UNCHANGED <<documents, index, readers, writers, pc, req, out, text, toks>>

NextRag ==
    \/ \E a \in AddInputs : CallAddDocument(a.title, a.content, a.source)
    \/ \E q \in Queries, k \in Limits, s \in QuerySources :
          CallSearchDocuments(DocumentQuery(q, k, s))
    \/ \E id \in GetIds : CallGetDocument(id)
    \/ Continue

SpecRag == InitRag /\ [][NextRag]_vars

----------------------------------------------------------------------------
(* Properties of the store, the index and the three calls (SpecRag).       *)

Positions == 0..(Len(documents) - 1)

\* The number of times x occurs in the sequence s.
Count(s, x) == Cardinality({i \in 1..Len(s) : s[i] = x})

\* The positions that carry an id, and the first of them.
PositionsOf(id) == {p \in Positions : DocAt(documents, p).id = id}
FirstPosition(id) == CHOOSE p \in PositionsOf(id) : \A q \in PositionsOf(id) : p <= q

\* The positions whose content holds at least one token of the query.
Matching(query) ==
    {p \in Positions :
        Range(Tokenize(DocAt(documents, p).content)) \cap Range(Tokenize(query)) # {}}

\* The DocumentResult get_document builds for the document at position p.
DirectResult(p) ==
    LET d == DocAt(documents, p)
    IN  [id |-> d.id, title |-> d.title, content |-> d.content, source |-> d.source,
         score |-> ScoreOne]

\* C1. Limit bound: a search with limit k returns at most k results, for
\* every reachable store, every query and every k >= 0.
C1_LimitBound ==
    call.op = "search_documents" => Len(call.ret.val) <= call.query.limit

\* C1: a search with limit 1 over a store where two documents match: one
\* result was cut off.
C1_Witness ==
    /\ call.op = "search_documents"
    /\ call.query.limit = 1
    /\ Cardinality(Matching(call.query.query)) >= 2
    /\ Len(call.ret.val) = 1

\* C4. Index/store consistency: every position in every posting list is a
\* position of the store (0 <= position < number of documents).
C4_IndexedPositionsExist ==
    \A w \in DOMAIN index : \A k \in 1..Len(index[w]) : index[w][k] \in Positions

\* C4: add_document has just indexed the new document, on top of a loaded one.
C4_Witness ==
    /\ call.op = "add_document"
    /\ Len(documents) >= 2
    /\ \E w \in DOMAIN index : \E k \in 1..Len(index[w]) : index[w][k] = Len(documents) - 1
    /\ \E w \in DOMAIN index : index[w][1] = 0

\* C5 as stated. Round trip from any prior store: after add_document(title,
\* content, source), get_document("source/title") retrieves a document with
\* that title, content and source and score 1.0.
C5_RoundTripAnyStore ==
    call.op = "add_document" =>
        GetDocument(documents, FormatId(call.source, call.title))
            = Ok(Some([id |-> FormatId(call.source, call.title), title |-> call.title,
                       content |-> call.content, source |-> call.source,
                       score |-> ScoreOne]))

\* C5, amended. add_document returns Ok(()) and no id; the new document's id
\* is source/title, and get_document on it retrieves the earliest document
\* with that id with score 1.0: the new document, with identical title, content
\* and source, whenever no earlier document of the store has the same id.
C5_RoundTrip ==
    call.op = "add_document" =>
        LET id  == FormatId(call.source, call.title)
            new == Len(documents) - 1
        IN  /\ call.ret = Ok(Unit)
            /\ DocAt(documents, new).id = id
            /\ GetDocument(documents, id) = Ok(Some(DirectResult(FirstPosition(id))))
            /\ PositionsOf(id) = {new} =>
                  GetDocument(documents, id)
                      = Ok(Some([id |-> id, title |-> call.title, content |-> call.content,
                                 source |-> call.source, score |-> ScoreOne]))

\* C5: a document was added to a non-empty store that had no document of its id.
C5_Witness ==
    /\ call.op = "add_document"
    /\ Len(documents) >= 2
    /\ PositionsOf(FormatId(call.source, call.title)) = {Len(documents) - 1}
    /\ GetDocument(documents, FormatId(call.source, call.title)).val.val.content = call.content

\* Two positions hold documents of identical title and source.
Duplicates(p, q) ==
    /\ p < q
    /\ DocAt(documents, p).title = DocAt(documents, q).title
    /\ DocAt(documents, p).source = DocAt(documents, q).source

\* C6. Duplicate insertion: two documents of identical title and source sit
\* at two positions with one id; get_document by that id returns the earliest
\* document carrying the id, never the later of the two; search does not
\* deduplicate: when the limit does not cut, every matching position,
\* duplicates included, is returned as a result of its own.
C6_DuplicateInsertion ==
    /\ \A p, q \in Positions : Duplicates(p, q) =>
          /\ DocAt(documents, q).id = DocAt(documents, p).id
          /\ FirstPosition(DocAt(documents, p).id) <= p
          /\ (call.op = "get_document" /\ call.id = DocAt(documents, p).id) =>
                 call.ret = Ok(Some(DirectResult(FirstPosition(call.id))))
    /\ (call.op = "search_documents" /\ \E p, q \in Positions : Duplicates(p, q)) =>
          LET matching == Matching(call.query.query)
          IN  call.query.limit >= Cardinality(matching) =>
                 /\ {call.ret.val[i].pos : i \in 1..Len(call.ret.val)} = matching
                 /\ Len(call.ret.val) = Cardinality(matching)

\* C6: get_document on a duplicated id whose two documents differ in content.
C6_Witness ==
    \E p, q \in Positions :
        /\ Duplicates(p, q)
        /\ DocAt(documents, p).content # DocAt(documents, q).content
        /\ call.op = "get_document"
        /\ call.id = DocAt(documents, p).id
        /\ call.ret.val.val.content = DocAt(documents, p).content

\* C6: a search returned both duplicates.
C6_WitnessSearch ==
    \E p, q \in Positions :
        /\ Duplicates(p, q)
        /\ call.op = "search_documents"
        /\ {p, q} \subseteq {call.ret.val[i].pos : i \in 1..Len(call.ret.val)}

\* C7. A query with no token, or whose tokens are all absent from the index,
\* makes search return Ok with the empty sequence, whatever the limit.
C7_UnmatchedQueryIsEmpty ==
    (call.op = "search_documents"
       /\ Range(Tokenize(call.query.query)) \cap DOMAIN index = {}) =>
        call.ret = Ok(<<>>)

\* C7: a query of one token the non-empty index does not hold, limit > 0.
C7_Witness ==
    /\ call.op = "search_documents"
    /\ Tokenize(call.query.query) # <<>>
    /\ Range(Tokenize(call.query.query)) \cap DOMAIN index = {}
    /\ DOMAIN index # {}
    /\ call.query.limit > 0
    /\ call.ret = Ok(<<>>)

\* C7: a query that tokenizes to no token at all.
C7_WitnessNoToken ==
    /\ call.op = "search_documents"
    /\ Tokenize(call.query.query) = <<>>
    /\ DOMAIN index # {}
    /\ call.ret = Ok(<<>>)

\* The scores a search for the query gives position p: one for each value a
\* search with a limit that cuts nothing can return.
ScoresGiven(query, p) ==
    UNION {{r.val[i].score : i \in {i \in 1..Len(r.val) : r.val[i].pos = p}} :
              r \in SearchDocuments(documents, index,
                                    DocumentQuery(query, Len(documents), NoneV))}

C12_WitnessPrior ==
    /\ call.op = "add_document"
    /\ call.content = ContentA
    /\ Len(documents) = 2
    /\ DocAt(documents, 0).content = ContentA
    /\ ScoresGiven(<<"a">>, 0) = ScoresGiven(<<"a">>, 1)
    /\ ScoresGiven(<<"a">>, 1) = {ScoreTimes(Idf(documents, index[<<"a">>]), 2)}

\* The positions whose content holds the token w.
DocsWith(w) ==
    {p \in Positions : w \in Range(Tokenize(DocAt(documents, p).content))}

\* C13 as stated. IDF monotonicity: for two indexed tokens a and b of one
\* store where a appears in fewer documents than b, the idf search uses for
\* a is greater than or equal to the idf it uses for b.
C13_IdfMonotone ==
    \A a, b \in DOMAIN index :
        Cardinality(DocsWith(a)) < Cardinality(DocsWith(b)) =>
            ~ScoreGt(Idf(documents, index[b]), Idf(documents, index[a]))

RECURSIVE SumOverTokens(_, _)
SumOverTokens(tokens, p) ==
    IF tokens = <<>> THEN ScoreZero
    ELSE LET q    == Head(tokens)
             rest == SumOverTokens(Tail(tokens), p)
         IN  IF q \in DOMAIN index
             THEN ScoreAdd(ScoreTimes(Reduce(Len(documents), Len(index[q])),
                                      Count(index[q], p)),
                           rest)
             ELSE rest

\* C16. Scoring formula: the score search assigns to the document at
\* position p is the sum, over every query-token occurrence q that is a key
\* of the index, of (number of occurrences of p in q's posting list) x
\* ln(number of documents / length of q's posting list).
C16_ScoringFormula ==
    call.op = "search_documents" =>
        \A i \in 1..Len(call.ret.val) :
            call.ret.val[i].score
                = SumOverTokens(Tokenize(call.query.query), call.ret.val[i].pos)

\* C16: a query of two tokens over a store of three documents where the
\* tokens have different weights: a returned document with "a" twice and "b"
\* once scores 2 x ln(3/4) + 1 x ln(3/1) = ln(27/16).
C16_Witness ==
    /\ call.op = "search_documents"
    /\ Tokenize(call.query.query) = << <<"a">>, <<"b">> >>
    /\ Len(documents) = 3
    /\ DOMAIN index = {<<"a">>, <<"b">>}
    /\ Len(index[<<"a">>]) = 4
    /\ Len(index[<<"b">>]) = 1
    /\ \E i \in 1..Len(call.ret.val) :
          /\ call.ret.val[i].content = ContentA
          /\ call.ret.val[i].score = [num |-> 27, den |-> 16]

\* The query tokens are k >= 1 occurrences of one token.
Repeats(tokens) == tokens # <<>> /\ \A i \in 1..Len(tokens) : tokens[i] = tokens[1]

\* C17. Query tokens are not deduplicated: for a query that is one token t
\* k times, every returned document's score is k times the score the query
\* t gives it in the same state.
C17_QueryTokensRepeat ==
    (call.op = "search_documents" /\ Repeats(Tokenize(call.query.query))) =>
        LET tokens == Tokenize(call.query.query)
            once   == Scores(documents, index, tokens[1])
        IN  \A i \in 1..Len(call.ret.val) :
                /\ call.ret.val[i].pos \in DOMAIN once
                /\ call.ret.val[i].score
                      = ScoreTimes(once[call.ret.val[i].pos], Len(tokens))

\* C17: the query "b B" over a store where "b" has a weight other than 0:
\* a returned document has twice the score the query "b" gives it.
C17_Witness ==
    /\ call.op = "search_documents"
    /\ Tokenize(call.query.query) = << <<"b">>, <<"b">> >>
    /\ \E i \in 1..Len(call.ret.val) :
          LET once == Scores(documents, index, <<"b">>)[call.ret.val[i].pos]
          IN  /\ once # ScoreZero
              /\ call.ret.val[i].score = ScoreAdd(once, once)
              /\ call.ret.val[i].score # once

\* C18 as stated. Only documents with nonzero accumulated score are
\* collected: no document returned by search has an accumulated score of zero.
C18_NoZeroScoreReturned ==
    call.op = "search_documents" =>
        \A i \in 1..Len(call.ret.val) : ~ScoreEq(call.ret.val[i].score, ScoreZero)

\* C18, amended. search collects every document that has an entry in its
\* score map, that is every document whose content holds a token of the
\* query, whatever the accumulated score, zero and negative included: each
\* returned document holds a query token, and when the limit cuts nothing
\* every document that holds one is returned.
C18_MatchedAreCollected ==
    call.op = "search_documents" =>
        LET returned == {call.ret.val[i].pos : i \in 1..Len(call.ret.val)}
            matching == Matching(call.query.query)
        IN  /\ returned \subseteq matching
            /\ Len(call.ret.val) = Min(call.query.limit, Cardinality(matching))
            /\ call.query.limit >= Cardinality(matching) => returned = matching

\* C18: a document matched only through a token whose posting list is as
\* long as the store was returned with the accumulated score 0.
C18_Witness ==
    /\ call.op = "search_documents"
    /\ Tokenize(call.query.query) = << <<"a">> >>
    /\ <<"a">> \in DOMAIN index
    /\ Len(index[<<"a">>]) = Len(documents)
    /\ \E i \in 1..Len(call.ret.val) : call.ret.val[i].score = ScoreZero

\* C18: a document returned with a negative accumulated score.
C18_WitnessNegative ==
    /\ call.op = "search_documents"
    /\ \E i \in 1..Len(call.ret.val) : ScoreGt(ScoreZero, call.ret.val[i].score)

\* C19. Ranking and truncation order: the sequence search returns is sorted
\* by score in non-increasing order, and the limit cuts after the sort: every
\* returned document has a score >= the score of every matching document
\* that was cut off.
C19_SortedThenTruncated ==
    call.op = "search_documents" =>
        LET ret      == call.ret.val
            scores   == Scores(documents, index, call.query.query)
            returned == {ret[i].pos : i \in 1..Len(ret)}
        IN  /\ \A i, j \in 1..Len(ret) : i < j => ~ScoreGt(ret[j].score, ret[i].score)
            /\ \A i \in 1..Len(ret) : \A p \in DOMAIN scores \ returned :
                  ~ScoreGt(scores[p], ret[i].score)

\* C19: a search with limit 2 over three matching documents: the document
\* cut off scores strictly less than both documents returned.
C19_Witness ==
    /\ call.op = "search_documents"
    /\ call.query.limit = 2
    /\ Len(call.ret.val) = 2
    /\ \E p \in Matching(call.query.query) :
          /\ \A i \in 1..2 : call.ret.val[i].pos # p
          /\ ScoreGt(call.ret.val[2].score,
                     Scores(documents, index, call.query.query)[p])

\* C19: two results in strictly decreasing order of score, the greater one
\* from the later position of the store.
C19_WitnessOrder ==
    /\ call.op = "search_documents"
    /\ Len(call.ret.val) = 2
    /\ ScoreGt(call.ret.val[1].score, call.ret.val[2].score)
    /\ call.ret.val[1].pos > call.ret.val[2].pos

\* The posting list of a token, empty for a token that is no key.
PostingList(w) == IF w \in DOMAIN index THEN index[w] ELSE <<>>

\* C20. Posting multiplicity: for every document at position p and every
\* token t, p occurs in t's posting list as many times as t occurs in
\* tokenize(content of document p), for documents indexed at load and for
\* documents added later.
C20_PostingMultiplicity ==
    \A p \in Positions :
        LET words == Tokenize(DocAt(documents, p).content)
        IN  \A t \in DOMAIN index \cup Range(words) :
                Count(PostingList(t), p) = Count(words, t)

\* C20: a document with "a" twice loaded at position 0 and another added
\* last, each twice in the posting list of "a" and once in that of "b",
\* with a document without "a" between them.
C20_Witness ==
    /\ call.op = "add_document"
    /\ call.content = ContentA
    /\ Len(documents) = 3
    /\ DocAt(documents, 0).content = ContentA
    /\ DocAt(documents, 1).content = ContentB
    /\ index[<<"a">>] = <<0, 0, 2, 2>>
    /\ index[<<"b">>] = <<0, 1, 2>>

\* C21. No division by zero in idf: every key of the index has a posting
\* list of length >= 1, and the store holds at least one document whenever
\* the index has a key, so no idf search computes has a zero divisor (or a
\* zero dividend): each is ln of a positive ratio.
C21_NoEmptyPostingList ==
    /\ \A w \in DOMAIN index : Len(index[w]) >= 1
    /\ DOMAIN index # {} => Len(documents) >= 1
    /\ call.op = "search_documents" =>
          \A i \in 1..Len(Tokenize(call.query.query)) :
              LET token == Tokenize(call.query.query)[i]
              IN  token \in DOMAIN index =>
                      /\ Idf(documents, index[token]).den >= 1
                      /\ Idf(documents, index[token]).num >= 1

\* C21: a search for "a" over a store where add_document created
\* the key "a": its posting list holds the two postings of the new document.
C21_Witness ==
    /\ call.op = "search_documents"
    /\ Tokenize(call.query.query) = << <<"a">> >>
    /\ Len(documents) = 2
    /\ DocAt(documents, 0).content = ContentB
    /\ DocAt(documents, 1).title = <<"x", "/", "f">>
    /\ index[<<"a">>] = <<1, 1>>

\* C21: a query token that is no key of the index contributes nothing.
C21_WitnessNoPostings ==
    /\ call.op = "search_documents"
    /\ Tokenize(call.query.query) = << <<"z">> >>
    /\ DOMAIN index # {}
    /\ call.ret = Ok(<<>>)

\* C22. search has no error conditions: for every query and every limit it
\* completes and returns a sequence; every position it looks up is a
\* position of the store and no score is NaN, so neither documents[position]
\* nor the unwrap in the sort comparator fails.
C22_SearchNeverFails ==
    call.op = "search_documents" =>
        LET scores == Scores(documents, index, call.query.query)
        IN  /\ call.ret.tag = "Ok"
            /\ DOMAIN call.ret.val = 1..Len(call.ret.val)
            /\ \A p \in DOMAIN scores : p \in Positions /\ ~IsNaN(scores[p])
            /\ ~SearchPanics(documents, index, call.query.query)

\* C22: a search over three documents whose scores had to be compared
\* (two different ones among them) and looked up, completed.
C22_Witness ==
    /\ call.op = "search_documents"
    /\ Len(documents) = 3
    /\ Cardinality(DOMAIN Scores(documents, index, call.query.query)) = 3
    /\ call.ret.tag = "Ok"
    /\ Len(call.ret.val) = 2
    /\ ScoreGt(call.ret.val[1].score, call.ret.val[2].score)

\* C22: an empty query and a limit of 0 over a non-empty store completed.
C22_WitnessEmpty ==
    /\ call.op = "search_documents"
    /\ Tokenize(call.query.query) = <<>>
    /\ call.query.limit = 0
    /\ Len(documents) >= 1
    /\ call.ret = Ok(<<>>)

IsPrefix(s, t) == Len(s) <= Len(t) /\ SubSeq(t, 1, Len(s)) = s

\* C23. Append-only growth: no step removes or reorders documents or
\* postings (the store and every posting list stay prefixes of their new
\* values), and add_document places the new document at position = store
\* length before the call, whatever is stored already, and appends only that
\* position to posting lists.
C23_AppendOnly ==
    [][/\ IsPrefix(documents, documents')
       /\ \A w \in DOMAIN index : w \in DOMAIN index' /\ IsPrefix(index[w], index'[w])
       /\ (call.op # "add_document" /\ call'.op = "add_document") =>
             /\ Len(documents') = Len(documents) + 1
             /\ LET d == DocAt(documents', Len(documents))
                IN  /\ d.title = call'.title
                    /\ d.content = call'.content
                    /\ d.source = call'.source
             /\ \A w \in DOMAIN index' :
                   \A k \in 1..Len(index'[w]) :
                       (w \in DOMAIN index => k > Len(index[w])) =>
                           index'[w][k] = Len(documents)
       /\ call'.op # "add_document" => UNCHANGED <<documents, index>>]_vars

\* C23: add_document has stored a document equal in every field to one
\* stored before it, as a second entry with postings of its own.
C23_Witness ==
    /\ call.op = "add_document"
    /\ Len(documents) >= 2
    /\ \E p \in Positions :
          /\ p < Len(documents) - 1
          /\ DocAt(documents, p) = DocAt(documents, Len(documents) - 1)
          /\ Count(index[<<"a">>], p) = 2
    /\ Count(index[<<"a">>], Len(documents) - 1) = 2

\* C24. Id composition: every stored document's id is its source, "/" and
\* its title, for the documents of the directory load (title = file name)
\* and for those of add_document.
C24_IdComposition ==
    \A p \in Positions :
        LET d == DocAt(documents, p)
        IN  d.id = d.source \o <<"/">> \o d.title

\* C24: a store with a loaded document (contracts/g) and, after it, one
\* that add_document made, whose title holds a "/" itself.
C24_Witness ==
    /\ call.op = "add_document"
    /\ call.title = <<"x", "/", "f">>
    /\ Len(documents) = 3
    /\ DocAt(documents, 1).id = SrcContracts \o <<"/", "g">>
    /\ DocAt(documents, 1).title = FileG
    /\ DocAt(documents, 2).id = SrcV2 \o <<"/", "x", "/", "f">>

\* C27. Reads are read-only: a search and a get_document leave the store and
\* the index as they were, so the answer is the one the state before and
\* after the call gives, and reads that follow each other with no write
\* between them are answered from the same state.
C27_ReadsAreReadOnly ==
    [][call'.op \in {"search_documents", "get_document"} =>
          /\ documents' = documents
          /\ index' = index
          /\ call'.op = "get_document" => call'.ret = GetDocument(documents', call'.id)
          /\ call'.op = "search_documents" =>
                call'.ret \in SearchDocuments(documents', index', call'.query)]_vars

\* C27: a get_document that found the second of three documents, over a
\* store and index that are still those the adds left.
C27_Witness ==
    /\ call.op = "get_document"
    /\ call.ret.val.tag = "Some"
    /\ Len(documents) = 3
    /\ DocAt(documents, 1).id = call.id
    /\ DocAt(documents, 0).id # call.id
    /\ index = BuildIndex(documents)

\* C27: a search that returned two of three documents, over a store and
\* index that are still those the adds left.
C27_WitnessSearch ==
    /\ call.op = "search_documents"
    /\ Len(call.ret.val) = 2
    /\ Len(documents) = 3
    /\ index = BuildIndex(documents)

----------------------------------------------------------------------------
(* SpecTok: tokenize applied to every text of at most MaxLen characters    *)
(* over TokAlphabet, and to the text of the documented example.            *)

MaxLen == 4

TokAlphabet == {"a", "B", "2", "-", " ", IDot}

TokTexts == UNION {[1..n -> TokAlphabet] : n \in 0..MaxLen}

\* "Uniswap-V2 Router!"
ExampleText ==
    <<"U","n","i","s","w","a","p","-","V","2"," ","R","o","u","t","e","r","!">>

\* ["uniswap", "v2", "router"]
ExampleTokens ==
    << <<"u","n","i","s","w","a","p">>, <<"v","2">>, <<"r","o","u","t","e","r">> >>

InitTok ==
    /\ text \in TokTexts \cup {ExampleText}
    /\ toks = NoneV
    /\ documents = <<>>
    /\ index = EmptyIndex
    /\ call = [op |-> "new"]
    /\ TasksIdle

RunTokenize ==
    /\ toks = NoneV
    /\ toks' = Some(Tokenize(text))
    /\ UNCHANGED <<documents, index, readers, writers, pc, req, out, call, text>>

\* The tokens written back as one text, sep between neighbours.
RECURSIVE Join(_, _)
Join(ss, sep) ==
    IF ss = <<>> THEN <<>>
    ELSE IF Len(ss) = 1 THEN Head(ss)
    ELSE Head(ss) \o <<sep>> \o Join(Tail(ss), sep)

JoinSeparators == {" ", "-"}

\* tokenize applied to its own output: to the tokens joined by a separator,
\* and to every token by itself.
RunTokenizeAgain ==
    /\ toks.tag = "Some"
    /\ \E sep \in JoinSeparators :
          toks' = [tag    |-> "Again",
                   val    |-> toks.val,
                   sep    |-> sep,
                   joined |-> Tokenize(Join(toks.val, sep)),
                   each   |-> [i \in 1..Len(toks.val) |-> Tokenize(toks.val[i])]]
    /\ UNCHANGED <<documents, index, readers, writers, pc, req, out, call, text>>

NextTok == RunTokenize \/ RunTokenizeAgain

SpecTok == InitTok /\ [][NextTok]_vars

RECURSIVE Flatten(_)
Flatten(ss) == IF ss = <<>> THEN <<>> ELSE Head(ss) \o Flatten(Tail(ss))

IsUpper(c) == c \in Range(UpperCase) \cup {IDot}

\* The number of maximal runs of letters and digits in s.
Runs(s) ==
    Cardinality({i \in 1..Len(s) :
        IsAlphanumeric(s[i]) /\ (i = 1 \/ ~IsAlphanumeric(s[i - 1]))})

\* C10. Tokenizer: the tokens are the maximal runs of letters and digits of
\* the lowercased text, in order: no token is empty, every character of a
\* token is a letter or digit and none is upper case, the tokens joined are
\* the lowercased text without its separators, and there is one token per
\* run; tokenize("Uniswap-V2 Router!") = ["uniswap", "v2", "router"].
C10_Tokenizer ==
    toks.tag = "Some" =>
        /\ \A i \in 1..Len(toks.val) :
              /\ toks.val[i] # <<>>
              /\ \A k \in 1..Len(toks.val[i]) :
                    IsAlphanumeric(toks.val[i][k]) /\ ~IsUpper(toks.val[i][k])
        /\ Flatten(toks.val) = SelectSeq(ToLowercase(text), IsAlphanumeric)
        /\ Len(toks.val) = Runs(ToLowercase(text))
        /\ text = ExampleText => toks.val = ExampleTokens

\* C10: the documented example was tokenized.
C10_Witness == text = ExampleText /\ toks = Some(ExampleTokens)

\* C10: a text with upper case, adjacent separators and a trailing separator.
C10_WitnessSeparators ==
    /\ text = <<"B", "-", " ", "-">>
    /\ toks = Some(<< <<"b">> >>)

\* C11. Tokenizer idempotence on normalized input: tokenizing the tokens of
\* tokenize(x) joined by a separator returns exactly tokenize(x), and
\* tokenizing any single token t of tokenize(x) returns [t].
C11_TokenizerIdempotent ==
    toks.tag = "Again" =>
        /\ toks.joined = toks.val
        /\ \A i \in 1..Len(toks.val) : toks.each[i] = <<toks.val[i]>>

\* C11: a text with upper case, with the letter whose lowercase holds a
\* separator, and with separators, tokenized and its tokens tokenized again.
C11_Witness ==
    /\ text = <<IDot, "B", "-", "2">>
    /\ toks.tag = "Again"
    /\ toks.val = << <<"i">>, <<"b">>, <<"2">> >>
    /\ toks.joined = toks.val

----------------------------------------------------------------------------
(* Spec: tasks on one RAGService, each a server connection (get_document,  *)
(* search_docs) or a direct caller of add_document, interleaved at their   *)
(* await points and inside add_document.                                   *)
(*   idle -> read_wait  -> read_locked  -> returned -> closed -> idle      *)
(*   idle -> write_wait -> write_locked -> pushed -> returned -> idle      *)

\* tokio::sync::RwLock: read() is granted while no write guard is out,
\* write() while no guard at all is out. (tokio also queues waiters in FIFO
\* order; the queue only forbids interleavings, so it is left out.)
\* A read() that is granted whatever guards are out.
CanReadAlways == TRUE

CanRead == writers = {}

\* A write() that waits for the writers but not for the readers.
CanWriteIgnoringReaders == writers = {}

CanWrite == writers = {} /\ readers = {}

\* The requests a connection sends: {"id", "method", "params"} in one line.
IdParams == {[id |-> Some(FormatId(SrcV2, FileF))], [id |-> Some(AbsentId)], [id |-> NoneV]}
\* limit: absent, an unsigned integer, or a number that is not one.
SearchParams ==
    {[query |-> Some(<<"a">>), limit |-> NoneV],
     [query |-> Some(<<"a">>), limit |-> Some(1)],
     [query |-> Some(<<"a">>), limit |-> Some(-1)],
     [query |-> Some(<<"z">>), limit |-> NoneV]}
RequestIds == {Some(1)}

ConnRequests ==
    [id : RequestIds, method : {"get_document"}, params : IdParams]
        \cup [id : RequestIds, method : {"search_docs"}, params : SearchParams]

\* Request lines that never reach the RAGService: a line that is no JSON,
\* a method handle_request does not know, and get_balance without an id.
OtherRequests ==
    {[parsed |-> FALSE, id |-> NoneV, method |-> "", params |-> NoneV],
     [parsed |-> TRUE, id |-> Some(1), method |-> "no_such_method", params |-> NoneV],
     [parsed |-> TRUE, id |-> NoneV, method |-> "get_balance", params |-> NoneV]}

\* The add_document calls made on the service.
AddRequests ==
    {[method |-> "add_document", title |-> a.title, content |-> a.content, source |-> a.source] :
        a \in {AddInput(FileF, ContentA, SrcV2), AddInput(FileF, ContentB, SrcV2)}}

\* params["id"].as_str().unwrap_or("") of the get_document branch
GetDocumentIdParam(params) == IF params.id.tag = "Some" THEN params.id.val ELSE <<>>

\* Value::as_u64 of a member that is absent (None) or a number: Some for an
\* unsigned integer, None otherwise.
AsU64(member) ==
    IF member.tag = "Some" /\ member.val >= 0 THEN Some(member.val) ELSE NoneV

\* Option::unwrap_or
UnwrapOr(opt, default) == IF opt.tag = "Some" THEN opt.val ELSE default

DefaultLimit == 5

\* A search_docs whose limit, when it cannot be read, is 0.
SearchDocsQueryZeroDefault(params) ==
    DocumentQuery(UnwrapOr(params.query, <<>>), UnwrapOr(AsU64(params.limit), 0), NoneV)

\* The DocumentQuery the search_docs branch and SearchDocsTool build: the
\* branch reads query or "" and limit or 5 and passes both on as
\* {"query", "limit"}; the tool reads limit or 5 again, and a source, which
\* handle_request never passes on.
SearchDocsQuery(params) ==
    LET query == UnwrapOr(params.query, <<>>)
        limit == UnwrapOr(AsU64(params.limit), DefaultLimit)
    IN  DocumentQuery(query, UnwrapOr(AsU64(Some(limit)), DefaultLimit), NoneV)

\* A get_docs tool that answers an absent document with Ok(null).
GetDocsToolNull(facade) ==
    IF facade.tag = "Err" THEN facade
    ELSE IF facade.val.tag = "Some" THEN Ok(facade.val.val) ELSE Ok(NoneV)

\* GetDocsTool::execute after rag_service.get_document(id).await?
GetDocsTool(facade) ==
    IF facade.tag = "Err" THEN facade
    ELSE IF facade.val.tag = "Some" THEN Ok(facade.val.val)
         ELSE Err("Document not found")

\* SearchDocsTool::execute after rag_service.search_documents(doc_query).await?
SearchDocsTool(facade) == facade

\* request["id"].as_u64().unwrap_or(0)
RequestId(request) == IF request.id.tag = "Some" THEN request.id.val ELSE 0

\* What handle_request returns for a request outside the RAGService, after
\* serde_json::from_str(&line)?: get_balance asks the blockchain service,
\* which answers or fails (unknown account, node error); a method without a
\* match arm is an error.
HandleRequestOther(request) ==
    IF ~request.parsed THEN {Err("parse")}
    ELSE IF request.method = "get_balance" THEN {Ok("balance"), Err("blockchain")}
    ELSE {Err("Unknown method")}

\* A handle_connection that answers a failed request with an error line.
ResponseLineReportingErrors(request, result) ==
    IF result.tag = "Ok"
    THEN Some([jsonrpc |-> "2.0", id |-> RequestId(request), result |-> result.val])
    ELSE Some([jsonrpc |-> "2.0", id |-> RequestId(request), error |-> result.msg])

\* handle_connection after handle_request(..).await?: the line written to the
\* requester, or None when `?` returned the error before anything was written.
ResponseLine(request, result) ==
    IF result.tag = "Ok"
    THEN Some([jsonrpc |-> "2.0", id |-> RequestId(request), result |-> result.val])
    ELSE NoneV

Init ==
    /\ Loaded
    /\ call = [op |-> "new"]
    /\ TasksIdle
    /\ TokIdle

\* Adds that have been called and have not pushed their document yet.
PendingAdds == {t \in Tasks : pc[t] \in {"write_wait", "write_locked"}}

\* A connection is accepted and its request line read, parsed and dispatched
\* down to the service call, which waits for the read lock.
Accept(t, request) ==
    /\ pc[t] = "idle"
    /\ pc' = [pc EXCEPT ![t] = "read_wait"]
    /\ req' = [req EXCEPT ![t] = request]
    /\ UNCHANGED <<documents, index, readers, writers, out, call, text, toks>>

\* A caller calls add_document on the service, which waits for the write lock.
CallAdd(t, request) ==
    /\ pc[t] = "idle"
    /\ Len(documents) + Cardinality(PendingAdds) < MaxDocs
    /\ pc' = [pc EXCEPT ![t] = "write_wait"]
    /\ req' = [req EXCEPT ![t] = request]
    /\ UNCHANGED <<documents, index, readers, writers, out, call, text, toks>>

\* self.rag_system.read().await
AcquireRead(t) ==
    /\ pc[t] = "read_wait"
    /\ CanRead
    /\ readers' = readers \cup {t}
    /\ pc' = [pc EXCEPT ![t] = "read_locked"]
    /\ UNCHANGED <<documents, index, writers, req, out, call, text, toks>>

\* self.rag_system.write().await
AcquireWrite(t) ==
    /\ pc[t] = "write_wait"
    /\ CanWrite
    /\ writers' = writers \cup {t}
    /\ pc' = [pc EXCEPT ![t] = "write_locked"]
    /\ UNCHANGED <<documents, index, readers, req, out, call, text, toks>>

\* get_document under the read guard, up to its return, which drops the guard.
GetDocumentReturn(t) ==
    /\ pc[t] = "read_locked"
    /\ req[t].method = "get_document"
    /\ out' = [out EXCEPT ![t] =
                  [stage |-> "facade",
                   facade |-> GetDocument(documents, GetDocumentIdParam(req[t].params))]]
    /\ readers' = readers \ {t}
    /\ pc' = [pc EXCEPT ![t] = "returned"]
    /\ UNCHANGED <<documents, index, writers, req, call, text, toks>>

\* search_documents under the read guard, up to its return; doc_query is the
\* DocumentQuery the tool called it with.
SearchDocumentsReturn(t) ==
    /\ pc[t] = "read_locked"
    /\ req[t].method = "search_docs"
    /\ LET doc_query == SearchDocsQuery(req[t].params)
       IN  \E r \in SearchDocuments(documents, index, doc_query) :
              out' = [out EXCEPT ![t] =
                         [stage |-> "facade", facade |-> r, doc_query |-> doc_query]]
    /\ readers' = readers \ {t}
    /\ pc' = [pc EXCEPT ![t] = "returned"]
    /\ UNCHANGED <<documents, index, writers, req, call, text, toks>>

\* add_document under the write guard: self.documents.push(document); pos is
\* the position the document took.
AddPush(t) ==
    /\ pc[t] = "write_locked"
    /\ documents' = PushDocument(documents, req[t].title, req[t].content, req[t].source)
    /\ out' = [out EXCEPT ![t] = [stage |-> "pushed", pos |-> Len(documents)]]
    /\ pc' = [pc EXCEPT ![t] = "pushed"]
    /\ UNCHANGED <<index, readers, writers, req, call, text, toks>>

\* add_document under the write guard: the index update, then Ok(()) and the
\* return, which drops the guard.
AddIndexReturn(t) ==
    /\ pc[t] = "pushed"
    /\ index' = IndexDocument(documents, index, req[t].content)
    /\ out' = [out EXCEPT ![t] = [stage |-> "facade", pos |-> out[t].pos, facade |-> Ok(Unit)]]
    /\ writers' = writers \ {t}
    /\ pc' = [pc EXCEPT ![t] = "returned"]
    /\ UNCHANGED <<documents, readers, req, call, text, toks>>

\* The tool turns the service's value into its result and handle_connection
\* writes the response line, or returns the error and writes nothing; the
\* connection closes either way.
Respond(t) ==
    /\ pc[t] = "returned"
    /\ req[t].method \in {"get_document", "search_docs"}
    /\ LET result == IF req[t].method = "get_document"
                     THEN GetDocsTool(out[t].facade)
                     ELSE SearchDocsTool(out[t].facade)
       IN  out' = [out EXCEPT ![t] =
                      [stage |-> "closed", facade |-> out[t].facade, tool |-> result,
                       wire |-> ResponseLine(req[t], result)]]
    /\ pc' = [pc EXCEPT ![t] = "closed"]
    /\ UNCHANGED <<documents, index, readers, writers, req, call, text, toks>>

\* A connection whose request does not reach the RAGService: the line is
\* read and parsed, handle_request returns, the response line is written or
\* the error returned, and the connection closes.
HandleOther(t, request) ==
    /\ pc[t] = "idle"
    /\ \E result \in HandleRequestOther(request) :
          out' = [out EXCEPT ![t] =
                     [stage |-> "closed", tool |-> result,
                      wire |-> ResponseLine(request, result)]]
    /\ pc' = [pc EXCEPT ![t] = "closed"]
    /\ req' = [req EXCEPT ![t] = request]
    /\ UNCHANGED <<documents, index, readers, writers, call, text, toks>>

\* The task ends: a closed connection, or an add_document that returned.
Finish(t) ==
    /\ \/ pc[t] = "closed"
       \/ pc[t] = "returned" /\ req[t].method = "add_document"
    /\ pc' = [pc EXCEPT ![t] = "idle"]
    /\ req' = [req EXCEPT ![t] = IdleReq]
    /\ out' = [out EXCEPT ![t] = NoOut]
    /\ UNCHANGED <<documents, index, readers, writers, call, text, toks>>

Next ==
    \E t \in Tasks :
        \/ \E request \in ConnRequests : Accept(t, request)
        \/ \E request \in AddRequests : CallAdd(t, request)
        \/ \E request \in OtherRequests : HandleOther(t, request)
        \/ AcquireRead(t)
        \/ AcquireWrite(t)
        \/ GetDocumentReturn(t)
        \/ SearchDocumentsReturn(t)
        \/ AddPush(t)
        \/ AddIndexReturn(t)
        \/ Respond(t)
        \/ Finish(t)

Spec == Init /\ [][Next]_vars

----------------------------------------------------------------------------
(* Properties of the service under concurrency (Spec).                     *)

\* Task t is between acquiring and releasing the write lock (add_document),
\* or the read lock (search_documents, get_document).
InWrite(t) == pc[t] \in {"write_locked", "pushed"}
InRead(t)  == pc[t] = "read_locked"

\* C2. Reader/writer exclusion: while an add_document is between acquiring
\* and releasing the lock, no other task is inside search_documents,
\* get_document or add_document with the lock held; the guards that are out
\* are exactly those of the tasks inside.
C2_ReaderWriterExclusion ==
    /\ \A t \in Tasks : InWrite(t) =>
          \A u \in Tasks \ {t} : ~InWrite(u) /\ ~InRead(u)
    /\ readers = {t \in Tasks : InRead(t)}
    /\ writers = {t \in Tasks : InWrite(t)}

\* C2: an add_document has pushed its document and not yet indexed it, and
\* another task's read is waiting for the lock.
C2_Witness ==
    \E t, u \in Tasks :
        /\ pc[t] = "pushed"
        /\ pc[u] = "read_wait"
        /\ readers = {}

\* C2: a search and a get_document hold the read lock at the same time.
C2_WitnessSharedRead ==
    \E t, u \in Tasks :
        /\ t # u
        /\ InRead(t) /\ req[t].method = "search_docs"
        /\ InRead(u) /\ req[u].method = "get_document"

\* The document at position p is fully indexed: each of its tokens has p in
\* its posting list once per occurrence.
Indexed(p) ==
    LET words == Tokenize(DocAt(documents, p).content)
    IN  \A w \in Range(words) :
           w \in DOMAIN index /\ Count(index[w], p) = Count(words, w)

\* C3. add_document is one logical unit: whenever a reader holds the lock,
\* the index is exactly the index of the store (every stored document fully
\* indexed, no position indexed that the store lacks); and an add_document
\* that returned Ok left its document in the store at the position it took,
\* fully indexed.
C3_AddIsAtomic ==
    /\ readers # {} => index = BuildIndex(documents)
    /\ \A t \in Tasks :
          (pc[t] = "returned" /\ req[t].method = "add_document") =>
              /\ out[t].facade = Ok(Unit)
              /\ out[t].pos \in Positions
              /\ DocAt(documents, out[t].pos)
                     = MakeDocument(req[t].title, req[t].content, req[t].source)
              /\ Indexed(out[t].pos)

\* C3: a reader holds the lock over a store that add_document has grown,
\* while another add_document waits to write.
C3_Witness ==
    \E t, u \in Tasks :
        /\ InRead(t)
        /\ pc[u] = "write_wait"
        /\ \E w \in DOMAIN index : \E k \in 1..Len(index[w]) : index[w][k] = Len(documents) - 1
        /\ Len(documents) >= 2

\* C3: an add_document has returned Ok.
C3_WitnessReturned ==
    \E t \in Tasks :
        /\ pc[t] = "returned"
        /\ req[t].method = "add_document"
        /\ Indexed(out[t].pos)

\* C8. A lookup of an id no stored document has is not fatal: get_document
\* returns Ok(None) and changes neither store nor index, and the tool turns
\* Ok(None) into the error "Document not found", again changing neither.
C8_NotFoundIsNonFatal ==
    [][\A t \in Tasks :
          /\ (pc[t] = "read_locked" /\ pc'[t] = "returned"
                /\ req[t].method = "get_document"
                /\ PositionsOf(GetDocumentIdParam(req[t].params)) = {}) =>
                 /\ out'[t].facade = Ok(NoneV)
                 /\ UNCHANGED <<documents, index>>
          /\ (pc[t] = "returned" /\ pc'[t] = "closed"
                /\ req[t].method = "get_document"
                /\ out[t].facade = Ok(NoneV)) =>
                 /\ out'[t].tool = Err("Document not found")
                 /\ UNCHANGED <<documents, index>>]_vars

\* C8: a lookup of an absent id in a non-empty store was turned into the
\* tool's error.
C8_Witness ==
    \E t \in Tasks :
        /\ pc[t] = "closed"
        /\ req[t].method = "get_document"
        /\ req[t].params.id = Some(AbsentId)
        /\ out[t].facade = Ok(NoneV)
        /\ out[t].tool = Err("Document not found")
        /\ documents # <<>>

\* C9 as stated. Every get_document request is answered: when its connection
\* closes, a line was written to the requester, holding the document or a
\* not-found error.
C9_GetDocumentAnswered ==
    \A t \in Tasks :
        (pc[t] = "closed" /\ req[t].method = "get_document") =>
            out[t].wire.tag = "Some"

\* The tasks whose search_docs request has returned from search_documents.
Searched == {t \in Tasks : req[t].method = "search_docs" /\ out[t].stage = "facade"}

\* C15. Default limit of search_docs: a request whose limit is absent or not
\* an unsigned integer is executed with limit 5 and returns at most 5
\* results; a request with an explicit limit k is executed with exactly k.
C15_DefaultLimit ==
    \A t \in Searched :
        LET limit == req[t].params.limit
            k     == IF limit.tag = "Some" /\ limit.val \in Nat THEN limit.val ELSE 5
        IN  /\ out[t].doc_query.limit = k
            /\ Len(out[t].facade.val) <= k

\* C15: a request without a limit was executed with limit 5 and returned
\* every matching document, more than a request with limit 1 gets.
C15_Witness ==
    \E t \in Searched :
        /\ req[t].params.limit = NoneV
        /\ out[t].doc_query.limit = 5
        /\ Len(out[t].facade.val) >= 2

\* C15: a request whose limit is not an unsigned integer, executed with 5.
C15_WitnessNotUnsigned ==
    \E t \in Searched :
        /\ req[t].params.limit = Some(-1)
        /\ out[t].doc_query.limit = 5
        /\ Len(out[t].facade.val) >= 2

\* C15: a request with limit 1, executed with 1, one matching document cut.
C15_WitnessExplicit ==
    \E t \in Searched :
        /\ req[t].params.limit = Some(1)
        /\ out[t].doc_query.limit = 1
        /\ Len(out[t].facade.val) = 1
        /\ Cardinality(Matching(req[t].params.query.val)) >= 2

----------------------------------------------------------------------------
(* SpecLoad: the start of the server on every file system built from       *)
(* LoadDirs: RAGService::new("./data"), then the unwrap of Server::new.    *)
(*   start -> new -> serving | panicked                                    *)

LoadDirs ==
    { MissingDir,
      UnlistableDir,
      Dir({}),
      Dir({File(FileF, ContentA)}),
      Dir({File(FileF, ContentA), File(FileG, ContentB)}),
      Dir({UnreadableFile(FileG)}),
      Dir({File(FileF, ContentA), UnreadableFile(FileG)}),
      Dir({SubDir(<<"d">>), File(FileG, ContentB)}) }

LoadFileSystems ==
    {FileSystem(c, dirs) : c \in BOOLEAN, dirs \in [1..Len(Partitions) -> LoadDirs]}

InitLoad ==
    /\ \E fs \in LoadFileSystems : call = [op |-> "start", fs |-> fs]
    /\ documents = <<>>
    /\ index = EmptyIndex
    /\ TasksIdle
    /\ TokIdle

\* RAGService::new: RAGSystem::new(data_dir)?, then the system is wrapped;
\* ret is what RAGSystem::new returned.
RAGServiceNew ==
    /\ call.op = "start"
    /\ \E r \in New(call.fs) :
          /\ call' = [op |-> "new", fs |-> call.fs, ret |-> r]
          /\ IF r.tag = "Ok"
             THEN documents' = r.val.documents /\ index' = r.val.index
             ELSE UNCHANGED <<documents, index>>
    /\ UNCHANGED <<readers, writers, pc, req, out, text, toks>>

\* Server::new: RAGService::new("./data").unwrap() panics on Err, and the
\* server never runs.
ServerNew ==
    /\ call.op = "new"
    /\ call' = [call EXCEPT !.op = IF call.ret.tag = "Ok" THEN "serving" ELSE "panicked"]
    /\ UNCHANGED <<documents, index, readers, writers, pc, req, out, text, toks>>

NextLoad == RAGServiceNew \/ ServerNew

SpecLoad == InitLoad /\ [][NextLoad]_vars

\* The directory exists, can be listed and holds a regular file that cannot
\* be read as text.
HasUnreadable(dir) ==
    dir.exists /\ dir.listable /\ \E e \in dir.entries : e.is_file /\ e.content = NoneV

\* The directory gives load_document_directory nothing to fail on.
Loadable(dir) ==
    ~dir.exists \/ (dir.listable /\ \A e \in dir.entries : e.is_file => e.content # NoneV)

PartitionNumbers == 1..Len(Partitions)

\* C25. I/O failure during load is fatal: if a source directory exists and
\* a regular file in it cannot be read as text, RAGSystem::new returns an
\* error, no store and no index are produced, and the server does not start.
C25_LoadFailureIsFatal ==
    (call.op # "start"
        /\ \E i \in PartitionNumbers : HasUnreadable(call.fs.partitions[i])) =>
        /\ call.ret.tag = "Err"
        /\ documents = <<>>
        /\ index = EmptyIndex
        /\ call.op # "serving"

\* C25: the unreadable file sits beside a readable one in the third
\* partition, after a partition that loaded: the start panicked.
C25_Witness ==
    /\ call.op = "panicked"
    /\ call.fs.can_create
    /\ call.fs.partitions[1] = Dir({File(FileF, ContentA), File(FileG, ContentB)})
    /\ call.fs.partitions[2] = MissingDir
    /\ call.fs.partitions[3] = Dir({File(FileF, ContentA), UnreadableFile(FileG)})
    /\ call.ret.tag = "Err"

\* The positions of the documents of partition i, and what was loaded from
\* there as (title, content) pairs.
LoadedFrom(i) == {p \in Positions : DocAt(documents, p).source = Partitions[i]}
LoadedFiles(i) ==
    {<<DocAt(documents, p).title, DocAt(documents, p).content>> : p \in LoadedFrom(i)}
RegularFiles(dir) == {<<e.name, e.content.val>> : e \in {e \in dir.entries : e.is_file}}

\* C26. A missing source partition is skipped silently: it never makes the
\* load fail (with data/docs and data/embeddings in place, the load succeeds
\* whenever every partition that exists can be listed and read), it
\* contributes no documents for its source, and the other partitions are
\* loaded in order; with all partitions missing the start succeeds with an
\* empty store and an empty index.
C26_MissingPartitionSkipped ==
    call.op # "start" =>
        LET dirs == call.fs.partitions
        IN  /\ (call.fs.can_create /\ \A i \in PartitionNumbers : Loadable(dirs[i]))
                  => call.ret.tag = "Ok"
            /\ call.ret.tag = "Ok" =>
                  /\ \A i \in PartitionNumbers :
                        IF dirs[i].exists
                        THEN /\ LoadedFiles(i) = RegularFiles(dirs[i])
                             /\ Cardinality(LoadedFrom(i)) = Cardinality(RegularFiles(dirs[i]))
                        ELSE LoadedFrom(i) = {}
                  /\ \A i, j \in PartitionNumbers :
                        i < j => \A p \in LoadedFrom(i), q \in LoadedFrom(j) : p < q
                  /\ index = BuildIndex(documents)
            /\ (call.fs.can_create /\ \A i \in PartitionNumbers : ~dirs[i].exists) =>
                  /\ call.ret.tag = "Ok"
                  /\ documents = <<>>
                  /\ index = EmptyIndex
                  /\ call.op # "panicked"

\* C26: the second partition is missing, the first and the third were
\* loaded, in this order, and the server runs.
C26_Witness ==
    /\ call.op = "serving"
    /\ call.fs.partitions[1] = Dir({File(FileF, ContentA)})
    /\ call.fs.partitions[2] = MissingDir
    /\ call.fs.partitions[3] = Dir({SubDir(<<"d">>), File(FileG, ContentB)})
    /\ Len(documents) = 2
    /\ DocAt(documents, 0).id = SrcV2 \o <<"/", "f">>
    /\ DocAt(documents, 1).id = SrcContracts \o <<"/", "g">>

\* C26: every partition is missing and the server runs on an empty store.
C26_WitnessAllMissing ==
    /\ call.op = "serving"
    /\ \A i \in PartitionNumbers : call.fs.partitions[i] = MissingDir
    /\ documents = <<>>
    /\ index = EmptyIndex

\* The methods of the model that handle_request has a match arm for.
KnownMethods == {"get_balance", "search_docs", "get_document"}

\* What a closed connection has to show for its request: a line exactly when
\* handle_request returned Ok, carrying the request's id (0 when absent) and
\* the result; no line when the line was no JSON, the method unknown, or
\* the tool failed.
ClosedAsSpecified(request, o) ==
    /\ o.wire.tag = "Some" <=> o.tool.tag = "Ok"
    /\ o.wire.tag = "Some" =>
          o.wire.val = [jsonrpc |-> "2.0",
                        id |-> IF request.id.tag = "Some" THEN request.id.val ELSE 0,
                        result |-> o.tool.val]
    /\ request.method \notin KnownMethods => o.wire = NoneV
    /\ (request.method = "get_document" /\ o.facade = Ok(NoneV)) => o.wire = NoneV
    /\ (request.method = "get_document" /\ o.facade # Ok(NoneV)) => o.wire.tag = "Some"
    /\ request.method = "search_docs" => o.wire.tag = "Some"

\* C28. One-shot connection protocol: a connection carries one request and
\* at most one response line, written in the step that closes it; the line
\* (with the request's id, 0 when absent) is written exactly when the
\* request was handled successfully, and when parsing or handling fails no
\* line of any kind is written before the connection closes.
C28_OneShotConnection ==
    [][\A t \in Tasks :
          /\ pc'[t] # "closed" => "wire" \notin DOMAIN out'[t]
          /\ (pc[t] # "closed" /\ pc'[t] = "closed") =>
                ClosedAsSpecified(req'[t], out'[t])
          /\ pc[t] = "closed" =>
                \/ pc'[t] = "closed" /\ out'[t] = out[t] /\ req'[t] = req[t]
                \/ pc'[t] = "idle" /\ req'[t] = IdleReq /\ out'[t] = NoOut]_vars

\* C28: a request with an unknown method closed with nothing written.
C28_Witness ==
    \E t \in Tasks :
        /\ pc[t] = "closed"
        /\ req[t].method = "no_such_method"
        /\ out[t].tool.tag = "Err"
        /\ out[t].wire = NoneV

\* C28: a line that is no JSON closed with nothing written.
C28_WitnessUnparsed ==
    \E t \in Tasks : pc[t] = "closed" /\ req[t].method = "" /\ out[t].wire = NoneV

\* C28: a request without an id was answered with the id 0.
C28_WitnessNoId ==
    \E t \in Tasks :
        /\ pc[t] = "closed"
        /\ req[t].id = NoneV
        /\ out[t].wire.tag = "Some"
        /\ out[t].wire.val.id = 0

\* C28: a tool error (a document not found) closed with nothing written,
\* while the other connection was answered with a found document.
C28_WitnessToolError ==
    \E t, u \in Tasks :
        /\ pc[t] = "closed" /\ req[t].method = "get_document"
        /\ out[t].tool = Err("Document not found") /\ out[t].wire = NoneV
        /\ pc[u] = "closed" /\ req[u].method = "get_document"
        /\ out[u].wire.tag = "Some"

----------------------------------------------------------------------------
\* MCPClient (rig-client): one client shared by concurrent callers.  call
\* holds the client: request_id is the AtomicU64, ids the values fetch_add
\* has returned so far, in the order of the atomic operations.

MaxCalls == 4     \* send_request calls on one client

ClientMethods == {"get_balance", "search_docs"}

\* A fetch_add that loads the counter and forgets the store.
FetchAddLoadOnly(v) == [id |-> v, next |-> v]

\* AtomicU64::fetch_add(1, SeqCst): returns the old value and stores the
\* next one in one atomic step.
FetchAdd(v) == [id |-> v, next |-> v + 1]

\* MCPClient::new: the counter starts at 1.
InitClient ==
    /\ call = [op |-> "client", request_id |-> 1, ids |-> <<>>]
    /\ documents = <<>>
    /\ index = EmptyIndex
    /\ TasksIdle
    /\ TokIdle

\* send_request up to the request value: the id is taken and the request
\* built.
SendRequest(t, method) ==
    /\ pc[t] = "idle"
    /\ Len(call.ids) < MaxCalls
    /\ LET f == FetchAdd(call.request_id) IN
          /\ call' = [call EXCEPT !.request_id = f.next,
                                  !.ids = Append(call.ids, f.id)]
          /\ req' = [req EXCEPT ![t] =
                        [jsonrpc |-> "2.0", id |-> f.id, method |-> method,
                         params |-> NoneV]]
    /\ pc' = [pc EXCEPT ![t] = "built"]
    /\ out' = [out EXCEPT ![t] = NoOut]
    /\ UNCHANGED <<documents, index, readers, writers, text, toks>>

\* send_request: the connection is opened and the request line written.
WriteRequest(t) ==
    /\ pc[t] = "built"
    /\ pc' = [pc EXCEPT ![t] = "written"]
    /\ out' = [out EXCEPT ![t] = [stage |-> "written", line |-> req[t]]]
    /\ UNCHANGED <<documents, index, readers, writers, req, call, text, toks>>

\* send_request: the response line is read and the result returned; a
\* connection closed without a line is an empty line, which is no JSON.
ReadResponse(t) ==
    /\ pc[t] = "written"
    /\ \E line \in {NoneV, Some([jsonrpc |-> "2.0", id |-> req[t].id, result |-> "value"])} :
          out' = [out EXCEPT ![t] =
                     [stage |-> "returned",
                      ret |-> IF line.tag = "Some" THEN Ok(line.val.result)
                              ELSE Err("parse")]]
    /\ pc' = [pc EXCEPT ![t] = "idle"]
    /\ req' = [req EXCEPT ![t] = IdleReq]
    /\ UNCHANGED <<documents, index, readers, writers, call, text, toks>>

NextClient ==
    \E t \in Tasks :
        \/ \E method \in ClientMethods : SendRequest(t, method)
        \/ WriteRequest(t)
        \/ ReadResponse(t)

SpecClient == InitClient /\ [][NextClient]_vars

\* The callers that hold a request of their own.
InFlight == {t \in Tasks : pc[t] \in {"built", "written"}}

\* C29. Client request ids are unique: the k-th id handed out is k (ids
\* start at 1 and each call takes the next integer), no two ids handed out
\* are equal, and concurrent requests carry different ids, each the one
\* its own call was given.
C29_RequestIdsUnique ==
    /\ \A k \in 1..Len(call.ids) : call.ids[k] = k
    /\ \A j, k \in 1..Len(call.ids) : j # k => call.ids[j] # call.ids[k]
    /\ call.request_id = Len(call.ids) + 1
    /\ \A t \in InFlight : req[t].id \in 1..Len(call.ids)
    /\ \A t, u \in InFlight : t # u => req[t].id # req[u].id
    /\ \A t \in Tasks : pc[t] = "written" => out[t].line.id = req[t].id

\* C29: two calls in flight at once, the later caller writing first.
C29_Witness ==
    /\ InFlight = Tasks
    /\ pc["t1"] = "built" /\ req["t1"].id = 1
    /\ pc["t2"] = "written" /\ req["t2"].id = 2

\* C29: the last call of the bound took the last id while another call was
\* still in flight.
C29_WitnessLast ==
    /\ Len(call.ids) = MaxCalls
    /\ \E t, u \in InFlight : req[t].id = MaxCalls /\ req[u].id < MaxCalls

----------------------------------------------------------------------------
\* BlockchainService::swap_tokens (mcp-server): one call, step by step.
\* call holds the call: its request, the place it has reached, the
\* transactions it has sent so far (in order), what the node reported for
\* the approval, and the value returned.

\* Token identifiers: ETH in two spellings, two registry symbols, an
\* address outside the registry, and a name that is neither.
SwapTokens == {"eth", "ETH", "usdc", "dai", "0xnew", "doge"}

\* to_lowercase() == "eth"
IsEth(token) == token \in {"eth", "ETH"}

\* build_token_registry: the symbols of the model that are registered.
TokenRegistry == {"usdc", "dai"}

\* resolve_token: a registered symbol resolves, an address outside the
\* registry is asked of its contract (which answers or fails), anything
\* else is unknown.  The address resolved is never "eth".
ResolveToken(identifier) ==
    IF identifier \in TokenRegistry THEN {Ok(identifier)}
    ELSE IF identifier = "0xnew" THEN {Ok(identifier), Err("contract")}
    ELSE {Err("Unknown token")}

\* parse_ether / parse_token_amount
ParseAmount(amount) == IF amount = "1.5" THEN Ok(amount) ELSE Err("amount")

SwapRequests ==
    {[from_token |-> f, to_token |-> t, amount |-> a] :
        f \in SwapTokens, t \in {"ETH", "dai", "doge"}, a \in {"1.5", "x"}}

\* What awaiting a pending transaction gives: a receipt with a status (1,
\* 0 or none), no receipt, or an error.
MinedOutcomes ==
    {Ok(Some([status |-> Some(1)])), Ok(Some([status |-> Some(0)])),
     Ok(Some([status |-> NoneV])), Ok(NoneV), Err("provider")}

\* An approval that takes any receipt for a success.
ApprovalResultAnyReceipt(mined) ==
    IF mined.tag = "Ok" /\ mined.val.tag = "Some" THEN Ok(Unit)
    ELSE Err("Token approval failed")

\* approve_token_for_router, the match on pending_tx.await.
ApprovalResult(mined) ==
    IF mined.tag = "Ok" /\ mined.val.tag = "Some" /\ mined.val.val.status = Some(1)
    THEN Ok(Unit)
    ELSE Err("Token approval failed")

\* process_swap_transaction, the match on pending_tx.await.
SwapResult(mined) ==
    IF mined.tag = "Ok" /\ mined.val.tag = "Some"
    THEN Ok([status |-> IF mined.val.val.status = Some(1) THEN "success" ELSE "failed"])
    ELSE Err("Swap failed")

\* The router method of the branch taken.
SwapMethod(request) ==
    IF IsEth(request.from_token) THEN "swapExactETHForTokens"
    ELSE IF IsEth(request.to_token) THEN "swapExactTokensForETH"
    ELSE "swapExactTokensForTokens"

\* The tokens swap_tokens resolves before anything is sent, in order.
TokensToResolve(request) ==
    IF IsEth(request.from_token) THEN <<request.to_token>>
    ELSE IF IsEth(request.to_token) THEN <<request.from_token>>
    ELSE <<request.from_token, request.to_token>>

\* The outcomes of resolving the tokens and parsing the amount: the first
\* error ends the call.
Prepared(request) ==
    LET tokens == TokensToResolve(request)
        first == ResolveToken(tokens[1])
        rest  == IF Len(tokens) = 2 THEN ResolveToken(tokens[2]) ELSE {Ok(Unit)}
    IN  {r \in first : r.tag = "Err"}
        \cup {r \in rest : r.tag = "Err" /\ \E a \in first : a.tag = "Ok"}
        \cup {ParseAmount(request.amount) :
                 a \in {x \in first : x.tag = "Ok"} \X {y \in rest : y.tag = "Ok"}}

InitSwap ==
    /\ \E request \in SwapRequests :
          call = [op |-> "swap_tokens", request |-> request, at |-> "start",
                  sent |-> <<>>, approval |-> NoneV, ret |-> NoneV]
    /\ documents = <<>>
    /\ index = EmptyIndex
    /\ TasksIdle
    /\ TokIdle

\* swap_tokens up to the first transaction: the branch is chosen, the
\* tokens resolved and the amount parsed.
SwapPrepare ==
    /\ call.at = "start"
    /\ \E r \in Prepared(call.request) :
          call' = IF r.tag = "Err"
                  THEN [call EXCEPT !.at = "returned", !.ret = Some(r)]
                  ELSE [call EXCEPT !.at = IF IsEth(call.request.from_token)
                                           THEN "swap" ELSE "approve"]
    /\ UNCHANGED <<documents, index, readers, writers, pc, req, out, text, toks>>

\* approve_token_for_router: approve_call.send().await?
ApproveSend ==
    /\ call.at = "approve"
    /\ \/ call' = [call EXCEPT !.at = "approving",
                                !.sent = Append(call.sent, "approve")]
       \/ call' = [call EXCEPT !.at = "returned", !.ret = Some(Err("send"))]
    /\ UNCHANGED <<documents, index, readers, writers, pc, req, out, text, toks>>

\* approve_token_for_router: the pending approval is awaited; an Err goes
\* up through the `?` of swap_tokens.
ApproveMined ==
    /\ call.at = "approving"
    /\ \E mined \in MinedOutcomes :
          LET r == ApprovalResult(mined) IN
          call' = IF r.tag = "Ok"
                  THEN [call EXCEPT !.at = "swap", !.approval = Some(mined)]
                  ELSE [call EXCEPT !.at = "returned", !.approval = Some(mined),
                                    !.ret = Some(r)]
    /\ UNCHANGED <<documents, index, readers, writers, pc, req, out, text, toks>>

\* swap_tokens: swap_call.send().await?
SwapSend ==
    /\ call.at = "swap"
    /\ \/ call' = [call EXCEPT !.at = "swapping",
                                !.sent = Append(call.sent, SwapMethod(call.request))]
       \/ call' = [call EXCEPT !.at = "returned", !.ret = Some(Err("send"))]
    /\ UNCHANGED <<documents, index, readers, writers, pc, req, out, text, toks>>

\* process_swap_transaction
SwapMined ==
    /\ call.at = "swapping"
    /\ \E mined \in MinedOutcomes :
          call' = [call EXCEPT !.at = "returned", !.ret = Some(SwapResult(mined))]
    /\ UNCHANGED <<documents, index, readers, writers, pc, req, out, text, toks>>

NextSwap == SwapPrepare \/ ApproveSend \/ ApproveMined \/ SwapSend \/ SwapMined

SpecSwap == InitSwap /\ [][NextSwap]_vars

SwapKinds ==
    {"swapExactETHForTokens", "swapExactTokensForETH", "swapExactTokensForTokens"}

\* The positions of the transactions of the given kinds among those sent.
SentAt(kinds) == {i \in 1..Len(call.sent) : call.sent[i] \in kinds}

\* The approval was mined with the success status.
ApprovalSucceeded ==
    call.approval = Some(Ok(Some([status |-> Some(1)])))

\* C30. Approve-before-swap ordering: with a non-ETH from_token a swap
\* transaction is sent only after the approval was sent and mined with
\* the success status; when the approval errors on sending, is not mined
\* or is mined with another status, swap_tokens returns an error and no
\* swap transaction is sent; with from_token = ETH no approval is sent.
C30_ApproveBeforeSwap ==
    /\ ~IsEth(call.request.from_token) =>
          /\ \A i \in SentAt(SwapKinds) :
                /\ ApprovalSucceeded
                /\ \E j \in SentAt({"approve"}) : j < i
          /\ (call.approval # NoneV /\ ~ApprovalSucceeded) =>
                /\ call.at = "returned"
                /\ call.ret.val.tag = "Err"
                /\ SentAt(SwapKinds) = {}
          /\ (call.at = "returned" /\ SentAt({"approve"}) = {}) =>
                /\ call.ret.val.tag = "Err"
                /\ call.sent = <<>>
    /\ IsEth(call.request.from_token) => SentAt({"approve"}) = {}
    /\ Cardinality(SentAt(SwapKinds)) <= 1
    /\ Cardinality(SentAt({"approve"})) <= 1

\* C30: a token swap was sent after its approval was mined with success.
C30_Witness ==
    /\ ~IsEth(call.request.from_token)
    /\ call.sent = <<"approve", "swapExactTokensForTokens">>
    /\ ApprovalSucceeded

\* C30: the approval was mined with a failure status; the call returned
\* an error with only the approval sent.
C30_WitnessFailed ==
    /\ call.approval = Some(Ok(Some([status |-> Some(0)])))
    /\ call.at = "returned"
    /\ call.ret.val.tag = "Err"
    /\ call.sent = <<"approve">>

\* C30: the approval was never mined; no swap was sent.
C30_WitnessNotMined ==
    /\ call.approval = Some(Ok(NoneV))
    /\ call.at = "returned"
    /\ call.sent = <<"approve">>

\* C30: a swap from ETH was sent with no approval before it.
C30_WitnessEth ==
    /\ IsEth(call.request.from_token)
    /\ call.sent = <<"swapExactETHForTokens">>

============================================================================
